---- MODULE Spec2Model ----
(***************************************************************************)
(* A model of the streaming-tuning notebook                                *)
(* "class examples/Spark Streaming/Streaming Tuning.ipynb".                *)
(*                                                                         *)
(* The notebook is a set of functions run by one foreground session        *)
(* against an engine that owns the queries, their progress telemetry and   *)
(* the Delta table; start_background_commits adds daemon threads that      *)
(* append to the table.  Each function is a component with its own         *)
(* specification (SpecDiagnose, SpecPartitions, SpecPlot, SpecStop,        *)
(* SpecCommits) over the shared variables below.                           *)
(*                                                                         *)
(* Python values are records tagged by "kind"; a print is one entry of     *)
(* out; durations are kept in milliseconds, so that batch_time (a number   *)
(* of seconds) is ms / MsPerSec and no fraction is ever rounded.           *)
(***************************************************************************)
EXTENDS Integers, Sequences, FiniteSets

VARIABLES
    pc,               \* the foreground session's position: "idle" or inside a function
    call,             \* the function called last and the arguments it was given
    out,              \* the lines printed by that call, in order
    reads,            \* the fields and attributes that call has read, in order
    outcome,          \* "none" | "running" | "returned" | "raised"
    lastProgress,     \* query.lastProgress, owned by the engine
    recentProgress,   \* query.recentProgress, owned by the engine
    loc,              \* the locals of plot_task_durations / stop_all_queries
    chart,            \* what plt.plot was given, if it rendered
    active,           \* spark.streams.active, owned by the engine
    events,           \* the stop() calls issued and returned, with the prints between
    threads,          \* the threads created by start_background_commits
    table             \* the commits appended to base_path, in commit order

fgVars     == <<pc, call, out, reads, outcome>>
engineVars == <<lastProgress, recentProgress, active>>
vars == <<pc, call, out, reads, outcome, lastProgress, recentProgress, loc,
          chart, active, events, threads, table>>

(***************************************************************************)
(* Bounds of the model.                                                    *)
(***************************************************************************)
MaxInterval == 2
MaxDurationSteps == 8
MaxHistory == 5
MaxPartitions == 40
MaxCores == 8
MaxQueries == 3
MaxThreads == 1
MaxBatches == 3
MaxRows == 1

(***************************************************************************)
(* Program constants.                                                      *)
(***************************************************************************)
MsPerSec == 1000
OverPartitionFactor == 4

(***************************************************************************)
(* Python values.                                                          *)
(***************************************************************************)
PyNone == [kind |-> "none"]
PyInt(n) == [kind |-> "int", n |-> n]
PyStr(cs) == [kind |-> "str", chars |-> cs]
PyDict(f) == [kind |-> "dict", items |-> f]
EmptyDict == PyDict([k \in {} |-> PyNone])

Ok(v) == [ok |-> TRUE, v |-> v]
Raise(e) == [ok |-> FALSE, exc |-> e]

Line(text) == [text |-> text, args |-> <<>>]
LineOf(text, args) == [text |-> text, args |-> args]

Range(s) == {s[i] : i \in 1..Len(s)}

\* bool(v), as "if not progress" and "if durations" take it
truthy(v) ==
    CASE v.kind = "none" -> FALSE
      [] v.kind = "dict" -> DOMAIN v.items # {}
      [] v.kind = "str"  -> v.chars # <<>>
      [] v.kind = "int"  -> v.n # 0

\* v[k]
getitem(v, k) ==
    IF v.kind = "dict"
    THEN IF k \in DOMAIN v.items THEN Ok(v.items[k]) ELSE Raise("KeyError")
    ELSE Raise("TypeError")

\* the characters of the modelled strings; DigitChars[d + 1] is the digit d
DigitChars == <<"0", "1", "2", "3", "4", "5", "6", "7", "8", "9">>
isdigit(c) == \E d \in 1..Len(DigitChars) : DigitChars[d] = c
digit(c) == (CHOOSE d \in 1..Len(DigitChars) : DigitChars[d] = c) - 1

RECURSIVE decimal(_)
decimal(cs) ==
    IF cs = <<>>
    THEN 0
    ELSE Len(DigitChars) * decimal(SubSeq(cs, 1, Len(cs) - 1)) + digit(cs[Len(cs)])

\* int(v): an int is itself, a string of decimal digits is parsed, anything else throws
int(v) ==
    CASE v.kind = "int" -> Ok(v.n)
      [] v.kind = "str" ->
            IF v.chars # <<>> /\ \A i \in 1..Len(v.chars) : isdigit(v.chars[i])
            THEN Ok(decimal(v.chars))
            ELSE Raise("ValueError")
      [] OTHER -> Raise("TypeError")

\* int(p['durationMs']['triggerExecution']), with the subscripts it went through
extract_duration(p) ==
    LET d == getitem(p, "durationMs") IN
    IF ~d.ok THEN [r |-> d, reads |-> <<"durationMs">>]
    ELSE LET t == getitem(d.v, "triggerExecution") IN
         IF ~t.ok THEN [r |-> t, reads |-> <<"durationMs", "triggerExecution">>]
         ELSE [r |-> int(t.v), reads |-> <<"durationMs", "triggerExecution">>]

\* a handler that names one exception type only
except_KeyError_only(exc) == exc = "KeyError"

\* "except Exception": KeyError, TypeError and ValueError are all subclasses
except_Exception(exc) == exc \in {"KeyError", "TypeError", "ValueError"}

(***************************************************************************)
(* The telemetry the engine may hold.                                      *)
(***************************************************************************)
\* the durations tried: every quarter of a second, and the millisecond on each side
DurationStepMs == MsPerSec \div 4
DurationsMs ==
    {n \in 0..(DurationStepMs * MaxDurationSteps + 1) :
        \E k \in 0..MaxDurationSteps, d \in {-1, 0, 1} : n = DurationStepMs * k + d}

TriggerValues ==
    {PyInt(n) : n \in DurationsMs}
        \cup {PyStr(<<"1", "5", "0", "0">>), PyStr(<<"x">>), PyStr(<<>>), PyNone}

DurationFields ==
    {PyNone, EmptyDict}
        \cup {PyDict([k \in {"triggerExecution"} |-> t]) : t \in TriggerValues}

\* the engine-formatted timestamp of the ts-th batch
Timestamp(ts) == PyStr(<<"T", DigitChars[ts + 1]>>)

\* a snapshot with timestamp ts: with or without 'durationMs', with or without 'timestamp'
Snapshots(ts) ==
    {PyDict([k \in {"durationMs", "timestamp"} |->
                IF k = "durationMs" THEN d ELSE Timestamp(ts)]) : d \in DurationFields}
    \cup {PyDict([k \in {"durationMs"} |-> d]) : d \in DurationFields}
    \cup {PyDict([k \in {"timestamp"} |-> Timestamp(ts)])}

NoCall == [op |-> "none"]

(***************************************************************************)
(* diagnose_performance(query, interval)                                   *)
(***************************************************************************)
SlowerLines ==
    << Line("[DIAGNOSIS] Batch is slower than trigger interval."),
       Line("- Tune transformations to reduce load."),
       Line("- Reduce input rate (e.g., maxOffsetsPerTrigger)."),
       Line("- Consider scaling up cluster cores or executors.") >>

FasterLines ==
    << Line("[DIAGNOSIS] Batch is much faster than trigger."),
       Line("- You may be underutilizing resources."),
       Line("- Consider reducing trigger interval for lower latency.") >>

BalancedLines ==
    << Line("[DIAGNOSIS] Trigger and batch are balanced."),
       Line("- Good balance. Monitor input growth and state size.") >>

\* the first comparison taken as >=
diagnosis_ge(batch_ms, trigger_interval) ==
    IF batch_ms >= trigger_interval * MsPerSec
    THEN SlowerLines
    ELSE IF 2 * batch_ms < trigger_interval * MsPerSec
         THEN FasterLines
         ELSE BalancedLines

\* the if / elif / else over batch_time = batch_ms / 1000 and trigger_interval
diagnosis(batch_ms, trigger_interval) ==
    IF batch_ms > trigger_interval * MsPerSec
    THEN SlowerLines
    ELSE IF 2 * batch_ms < trigger_interval * MsPerSec
         THEN FasterLines
         ELSE BalancedLines

\* the try block and its except clause: what is printed, read, and whether it returns
diagnose_try(progress, interval) ==
    LET e == extract_duration(progress) IN
    IF e.r.ok
    THEN [out |-> << LineOf("Trigger Interval", <<interval>>),
                     LineOf("Batch Duration", <<e.r.v>>) >>
                  \o diagnosis(e.r.v, interval),
          reads |-> e.reads, outcome |-> "returned"]
    ELSE IF except_Exception(e.r.exc)
         THEN [out |-> << LineOf("Could not extract performance info:", <<e.r.exc>>) >>,
               reads |-> e.reads, outcome |-> "returned"]
         ELSE [out |-> <<>>, reads |-> e.reads, outcome |-> "raised"]

\* the guard without its return: the try block runs after the message
diagnose_body_falls_through(progress, interval) ==
    IF ~truthy(progress)
    THEN LET t == diagnose_try(progress, interval) IN
         [out |-> << Line("No progress yet. Query may not have started.") >> \o t.out,
          reads |-> t.reads, outcome |-> t.outcome]
    ELSE diagnose_try(progress, interval)

diagnose_body(progress, interval) ==
    IF ~truthy(progress)
    THEN [out |-> << Line("No progress yet. Query may not have started.") >>,
          reads |-> <<>>, outcome |-> "returned"]
    ELSE diagnose_try(progress, interval)

diagnose_performance ==
    /\ pc = "idle"
    /\ \E interval \in 0..MaxInterval :
          LET res == diagnose_body(lastProgress, interval) IN
          /\ call' = [op |-> "diagnose_performance", progress |-> lastProgress,
                      interval |-> interval]
          /\ out' = res.out
          /\ reads' = <<"lastProgress">> \o res.reads
          /\ outcome' = res.outcome
    /\ UNCHANGED <<pc, engineVars, loc, chart, events, threads, table>>

\* the engine publishes the snapshot of a finished micro-batch as query.lastProgress
\* (None until the first batch; a snapshot may be malformed, or empty)
PublishLastProgress ==
    /\ \E p \in Snapshots(1) \cup {EmptyDict, PyNone} :
          /\ p # lastProgress
          /\ lastProgress' = p
    /\ UNCHANGED <<fgVars, recentProgress, loc, chart, active, events, threads, table>>

InitCommon ==
    /\ pc = "idle"
    /\ call = NoCall
    /\ out = <<>>
    /\ reads = <<>>
    /\ outcome = "none"
    /\ lastProgress = PyNone
    /\ recentProgress = <<>>
    /\ loc = [i |-> 0]
    /\ chart = [rendered |-> FALSE]
    /\ active = <<>>
    /\ events = <<>>
    /\ threads = <<>>
    /\ table = <<>>

InitDiagnose == InitCommon
NextDiagnose == diagnose_performance \/ PublishLastProgress
SpecDiagnose == InitDiagnose /\ [][NextDiagnose]_vars

(***************************************************************************)
(* check_partitions_and_cores_static(df)                                   *)
(***************************************************************************)
\* the second comparison taken as >=
classify_partitions_ge(num_partitions, total_cores) ==
    IF num_partitions < total_cores
    THEN Line("Under-partitioned: not all cores will be used.")
    ELSE IF num_partitions >= total_cores * OverPartitionFactor
         THEN Line("Over-partitioned: could lead to overhead and small files.")
         ELSE Line("Partitioning is well balanced with available cores.")

\* the if / elif / else over num_partitions and total_cores
classify_partitions(num_partitions, total_cores) ==
    IF num_partitions < total_cores
    THEN Line("Under-partitioned: not all cores will be used.")
    ELSE IF num_partitions > total_cores * OverPartitionFactor
         THEN Line("Over-partitioned: could lead to overhead and small files.")
         ELSE Line("Partitioning is well balanced with available cores.")

\* df is [isStreaming, partitions]; defaultParallelism is the session's
check_partitions_body(df, defaultParallelism) ==
    IF df.isStreaming
    THEN [out |-> << Line("Cannot check partitions on a streaming DataFrame.") >>,
          reads |-> <<"df.isStreaming">>]
    ELSE [out |-> << LineOf("DataFrame partitions:", <<df.partitions>>),
                     LineOf("Available cluster cores:", <<defaultParallelism>>),
                     classify_partitions(df.partitions, defaultParallelism) >>,
          reads |-> <<"df.isStreaming", "df.rdd.getNumPartitions",
                      "sparkContext.defaultParallelism">>]

check_partitions_and_cores_static ==
    /\ pc = "idle"
    /\ \E isStreaming \in BOOLEAN, partitions \in 0..MaxPartitions, cores \in 1..MaxCores :
          LET df == [isStreaming |-> isStreaming, partitions |-> partitions]
              res == check_partitions_body(df, cores)
          IN  /\ call' = [op |-> "check_partitions_and_cores_static", df |-> df,
                          cores |-> cores]
              /\ out' = res.out
              /\ reads' = res.reads
              /\ outcome' = "returned"
    /\ UNCHANGED <<pc, engineVars, loc, chart, events, threads, table>>

InitPartitions == InitCommon
NextPartitions == check_partitions_and_cores_static
SpecPartitions == InitPartitions /\ [][NextPartitions]_vars

(***************************************************************************)
(* plot_task_durations(query)                                              *)
(***************************************************************************)
\* the snapshots of the histories plotted: the ts-th batch took ts steps of
\* DurationStepMs; the duration field or the timestamp may be missing or malformed
PlotDurationFields(ts) ==
    { PyDict([k \in {"triggerExecution"} |-> PyInt(DurationStepMs * ts)]),
      PyDict([k \in {"triggerExecution"} |-> PyStr(<<"x">>)]) }

PlotSnapshots(ts) ==
    {PyDict([k \in {"durationMs", "timestamp"} |->
                IF k = "durationMs" THEN d ELSE Timestamp(ts)]) :
        d \in PlotDurationFields(ts)}
    \cup {PyDict([k \in {"durationMs"} |-> d]) : d \in PlotDurationFields(ts)}
    \cup {PyDict([k \in {"timestamp"} |-> Timestamp(ts)])}

\* the engine appends the snapshot of a finished micro-batch to query.recentProgress
PublishRecentProgress ==
    /\ Len(recentProgress) < MaxHistory
    /\ \E p \in PlotSnapshots(Len(recentProgress) + 1) :
          recentProgress' = Append(recentProgress, p)
    /\ UNCHANGED <<fgVars, lastProgress, loc, chart, active, events, threads, table>>

NoChart == [rendered |-> FALSE]

\* progress_history = query.recentProgress, and the "if not progress_history" guard
plot_task_durations ==
    /\ pc = "idle"
    /\ call' = [op |-> "plot_task_durations", history |-> recentProgress]
    /\ reads' = <<"recentProgress">>
    /\ chart' = NoChart
    /\ IF recentProgress = <<>>
       THEN /\ out' = << Line("No progress history available.") >>
            /\ outcome' = "returned"
            /\ UNCHANGED <<pc, loc>>
       ELSE /\ out' = <<>>
            /\ outcome' = "running"
            /\ pc' = "plot_loop"
            /\ loc' = [progress_history |-> recentProgress, i |-> 1,
                       durations |-> <<>>, timestamps |-> <<>>]
    /\ UNCHANGED <<engineVars, events, threads, table>>

\* one iteration of the loop over p: the two appends, in the order of the try block,
\* and what the except clause leaves
plot_try(p, durations, timestamps) ==
    LET e == extract_duration(p) IN
    IF ~e.r.ok
    THEN [durations |-> durations, timestamps |-> timestamps, exc |-> e.r.exc]
    ELSE LET ds == Append(durations, e.r.v)
             t  == getitem(p, "timestamp")
         IN  IF ~t.ok
             THEN [durations |-> ds, timestamps |-> timestamps, exc |-> t.exc]
             ELSE [durations |-> ds, timestamps |-> Append(timestamps, t.v),
                   exc |-> "none"]

plot_loop_step ==
    /\ pc = "plot_loop"
    /\ loc.i <= Len(loc.progress_history)
    /\ LET r == plot_try(loc.progress_history[loc.i], loc.durations, loc.timestamps) IN
       IF r.exc = "none" \/ except_Exception(r.exc)
       THEN /\ loc' = [loc EXCEPT !.i = @ + 1, !.durations = r.durations,
                                  !.timestamps = r.timestamps]
            /\ UNCHANGED <<pc, outcome>>
       ELSE /\ loc' = [loc EXCEPT !.durations = r.durations, !.timestamps = r.timestamps]
            /\ pc' = "idle"
            /\ outcome' = "raised"
    /\ UNCHANGED <<call, out, reads, engineVars, chart, events, threads, table>>

\* "if durations": plt.plot(timestamps, durations) draws one point per pair and
\* throws ValueError when the two lists differ in length; else the message
plot_render ==
    /\ pc = "plot_loop"
    /\ loc.i > Len(loc.progress_history)
    /\ pc' = "idle"
    /\ IF loc.durations # <<>>
       THEN IF Len(loc.timestamps) = Len(loc.durations)
            THEN /\ chart' = [rendered |-> TRUE, x |-> loc.timestamps, y |-> loc.durations]
                 /\ outcome' = "returned"
                 /\ out' = out
            ELSE /\ outcome' = "raised"
                 /\ UNCHANGED <<chart, out>>
       ELSE /\ out' = Append(out, Line("No valid durations to plot."))
            /\ outcome' = "returned"
            /\ chart' = chart
    /\ UNCHANGED <<call, reads, loc, engineVars, events, threads, table>>

InitPlot == InitCommon
NextPlot ==
    \/ PublishRecentProgress
    \/ plot_task_durations
    \/ plot_loop_step
    \/ plot_render
SpecPlot == InitPlot /\ [][NextPlot]_vars

(***************************************************************************)
(* attach_read_stream, list_active_queries, stop_all_queries               *)
(***************************************************************************)
Queries == 1..MaxQueries

Remove(seq, q) == SelectSeq(seq, LAMBDA x : x # q)

\* df.writeStream...start(): the engine adds the new query to spark.streams.active
attach_read_stream ==
    /\ pc = "idle"
    /\ \E q \in Queries \ Range(active) :
          /\ active' = Append(active, q)
          /\ call' = [op |-> "attach_read_stream", query |-> q]
    /\ out' = << Line("Streaming query started.") >>
    /\ reads' = <<>>
    /\ outcome' = "returned"
    /\ UNCHANGED <<pc, lastProgress, recentProgress, loc, chart, events, threads, table>>

\* a query ends by itself (its source fails, or another session stops it): the
\* engine drops it from spark.streams.active
QueryTerminates ==
    /\ \E q \in Range(active) : active' = Remove(active, q)
    /\ UNCHANGED <<fgVars, lastProgress, recentProgress, loc, chart, events, threads,
                   table>>

list_active_queries ==
    /\ pc = "idle"
    /\ call' = [op |-> "list_active_queries", active |-> active]
    /\ reads' = <<"spark.streams.active">>
    /\ out' = IF active = <<>>
              THEN << Line("No active streaming queries.") >>
              ELSE [i \in 1..Len(active) |-> LineOf("ID, Name, Status", <<i, active[i]>>)]
    /\ outcome' = "returned"
    /\ UNCHANGED <<pc, engineVars, loc, chart, events, threads, table>>

Event(ev, q) == [ev |-> ev, q |-> q]

\* an iteration that starts at the second element
iteration_of_tail(queries) == IF queries = <<>> THEN <<>> ELSE Tail(queries)

\* "for q in spark.streams.active": the list is read once, and iterated in order
iteration_of(queries) == queries

stop_all_queries ==
    /\ pc = "idle"
    /\ call' = [op |-> "stop_all_queries", active |-> active]
    /\ reads' = <<"spark.streams.active">>
    /\ out' = <<>>
    /\ events' = <<>>
    /\ outcome' = "running"
    /\ loc' = [queries |-> iteration_of(active), i |-> 1]
    /\ pc' = "stop_loop"
    /\ UNCHANGED <<engineVars, chart, threads, table>>

\* print(f"Stopping query ID: {q.id}, Name: {q.name}")
stop_announce ==
    /\ pc = "stop_loop"
    /\ loc.i <= Len(loc.queries)
    /\ out' = Append(out, LineOf("Stopping query", <<loc.queries[loc.i]>>))
    /\ events' = Append(events, Event("print", loc.queries[loc.i]))
    /\ pc' = "stop_call"
    /\ UNCHANGED <<call, reads, outcome, engineVars, loc, chart, threads, table>>

\* q.stop() is called, and blocks
stop_call ==
    /\ pc = "stop_call"
    /\ events' = Append(events, Event("stop", loc.queries[loc.i]))
    /\ pc' = "stop_wait"
    /\ UNCHANGED <<call, out, reads, outcome, engineVars, loc, chart, threads, table>>

\* q.stop() returns: the query has ceased and is no longer active
stop_return ==
    /\ pc = "stop_wait"
    /\ active' = Remove(active, loc.queries[loc.i])
    /\ events' = Append(events, Event("returned", loc.queries[loc.i]))
    /\ loc' = [loc EXCEPT !.i = @ + 1]
    /\ pc' = "stop_loop"
    /\ UNCHANGED <<call, out, reads, outcome, lastProgress, recentProgress, chart,
                   threads, table>>

\* the loop is exhausted and the function returns
stop_all_done ==
    /\ pc = "stop_loop"
    /\ loc.i > Len(loc.queries)
    /\ pc' = "idle"
    /\ outcome' = "returned"
    /\ UNCHANGED <<call, out, reads, engineVars, loc, chart, events, threads, table>>

InitStop == InitCommon
NextStop ==
    \/ attach_read_stream
    \/ QueryTerminates
    \/ list_active_queries
    \/ stop_all_queries
    \/ stop_announce
    \/ stop_call
    \/ stop_return
    \/ stop_all_done
SpecStop == InitStop /\ [][NextStop]_vars

(***************************************************************************)
(* simulate_delta_commits, start_background_commits                        *)
(***************************************************************************)
\* a range whose end is taken inclusive
batch_range_inclusive(i, rows_per_batch) ==
    [start |-> i * rows_per_batch, end |-> (i + 1) * rows_per_batch + 1]

\* spark.range(i * rows_per_batch, (i + 1) * rows_per_batch)
batch_range(i, rows_per_batch) ==
    [start |-> i * rows_per_batch, end |-> (i + 1) * rows_per_batch]

\* the rows of spark.range(start, end): start, start + 1, ... end - 1
range_count(r) == IF r.end > r.start THEN r.end - r.start ELSE 0

\* threading.Thread(target=simulate_delta_commits, args=..., daemon=True); thread.start()
start_background_commits ==
    /\ pc = "idle"
    /\ Len(threads) < MaxThreads
    /\ \E num_batches \in 0..MaxBatches, rows_per_batch \in 0..MaxRows :
          /\ threads' = Append(threads,
                 [pc |-> "loop", i |-> 0, num_batches |-> num_batches,
                  rows_per_batch |-> rows_per_batch, daemon |-> TRUE, log |-> <<>>])
          /\ call' = [op |-> "start_background_commits", num_batches |-> num_batches,
                      rows_per_batch |-> rows_per_batch, thread |-> Len(threads) + 1,
                      returned |-> 0]
    /\ out' = <<>>
    /\ reads' = <<>>
    /\ outcome' = "running"
    /\ pc' = "thread_started"
    /\ UNCHANGED <<engineVars, loc, chart, events, table>>

\* a return that first joins the thread
start_background_commits_joins ==
    /\ pc = "thread_started"
    /\ threads[call.thread].pc \in {"done", "raised"}
    /\ out' = Append(out, Line("Simulated Delta commit thread started."))
    /\ call' = [call EXCEPT !.returned = call.thread]
    /\ outcome' = "returned"
    /\ pc' = "idle"
    /\ UNCHANGED <<reads, engineVars, loc, chart, events, threads, table>>

\* print("Simulated Delta commit thread started."); return thread
start_background_commits_returns ==
    /\ pc = "thread_started"
    /\ out' = Append(out, Line("Simulated Delta commit thread started."))
    /\ call' = [call EXCEPT !.returned = call.thread]
    /\ outcome' = "returned"
    /\ pc' = "idle"
    /\ UNCHANGED <<reads, engineVars, loc, chart, events, threads, table>>

\* one iteration of the loop of simulate_delta_commits in a thread t, up to the
\* sleep: the append commit of batch i, and its print
commit_batch ==
    \E t \in 1..Len(threads) :
        /\ threads[t].pc = "loop"
        /\ threads[t].i < threads[t].num_batches
        /\ LET r == batch_range(threads[t].i, threads[t].rows_per_batch) IN
           /\ table' = Append(table, [writer |-> t, batch |-> threads[t].i,
                                      start |-> r.start, rows |-> range_count(r)])
           /\ threads' = [threads EXCEPT ![t].pc = "sleep",
                             ![t].log = Append(@, <<threads[t].rows_per_batch,
                                                    threads[t].i>>)]
        /\ UNCHANGED <<fgVars, engineVars, loc, chart, events>>

\* the write fails (the path is unreachable): the exception ends the thread
commit_fails ==
    \E t \in 1..Len(threads) :
        /\ threads[t].pc = "loop"
        /\ threads[t].i < threads[t].num_batches
        /\ threads' = [threads EXCEPT ![t].pc = "raised"]
        /\ UNCHANGED <<fgVars, engineVars, loc, chart, events, table>>

\* time.sleep(interval_sec) is over: the next iteration
wake ==
    \E t \in 1..Len(threads) :
        /\ threads[t].pc = "sleep"
        /\ threads' = [threads EXCEPT ![t].pc = "loop", ![t].i = @ + 1]
        /\ UNCHANGED <<fgVars, engineVars, loc, chart, events, table>>

\* range(num_batches) is exhausted: simulate_delta_commits returns
simulate_returns ==
    \E t \in 1..Len(threads) :
        /\ threads[t].pc = "loop"
        /\ threads[t].i = threads[t].num_batches
        /\ threads' = [threads EXCEPT ![t].pc = "done"]
        /\ UNCHANGED <<fgVars, engineVars, loc, chart, events, table>>

InitCommits == InitCommon
NextCommits ==
    \/ start_background_commits
    \/ start_background_commits_returns
    \/ commit_batch
    \/ commit_fails
    \/ wake
    \/ simulate_returns
    \/ list_active_queries
SpecCommits == InitCommits /\ [][NextCommits]_vars

(***************************************************************************)
(* Properties of diagnose_performance.                                     *)
(***************************************************************************)
DiagnosisTexts ==
    { "[DIAGNOSIS] Batch is slower than trigger interval.",
      "[DIAGNOSIS] Batch is much faster than trigger.",
      "[DIAGNOSIS] Trigger and batch are balanced." }

Printed(text) == \E i \in 1..Len(out) : out[i].text = text
DiagnosesPrinted == {i \in 1..Len(out) : out[i].text \in DiagnosisTexts}

Diagnosed == call.op = "diagnose_performance"

\* the snapshot is a non-empty record
NonEmptySnapshot(p) == p.kind = "dict" /\ DOMAIN p.items # {}

\* the snapshot holds durationMs.triggerExecution, and TriggerOf(p) is what it holds
HasTrigger(p) ==
    /\ p.kind = "dict"
    /\ "durationMs" \in DOMAIN p.items
    /\ p.items["durationMs"].kind = "dict"
    /\ "triggerExecution" \in DOMAIN p.items["durationMs"].items
TriggerOf(p) == p.items["durationMs"].items["triggerExecution"]

\* the value converts to an integer: an integer, or a non-empty string of decimal digits
Convertible(v) ==
    \/ v.kind = "int"
    \/ /\ v.kind = "str"
       /\ v.chars # <<>>
       /\ \A i \in 1..Len(v.chars) :
             v.chars[i] \in {"0", "1", "2", "3", "4", "5", "6", "7", "8", "9"}

IntegerTrigger(p) == HasTrigger(p) /\ TriggerOf(p).kind = "int"

\* C1: for a snapshot whose durationMs.triggerExecution is T ms and an interval of
\* I seconds, diagnose_performance prints exactly one diagnosis: "slower" iff
\* T/1000 > I, "much faster" iff T/1000 <= I and T/1000 < 0.5*I, "balanced" in
\* every other case (so T/1000 = I and T/1000 = 0.5*I with I > 0 are balanced).
C1_DiagnosisFollowsTheInequalities ==
    (Diagnosed /\ IntegerTrigger(call.progress)) =>
        LET T == TriggerOf(call.progress).n
            I == call.interval
            slower == T > 1000 * I
            faster == T <= 1000 * I /\ 2 * T < 1000 * I
        IN  /\ outcome = "returned"
            /\ Cardinality(DiagnosesPrinted) = 1
            /\ Printed("[DIAGNOSIS] Batch is slower than trigger interval.") <=> slower
            /\ Printed("[DIAGNOSIS] Batch is much faster than trigger.") <=> faster
            /\ Printed("[DIAGNOSIS] Trigger and batch are balanced.")
                    <=> (~slower /\ ~faster)
            /\ (I > 0 /\ (T = 1000 * I \/ 2 * T = 1000 * I))
                    => Printed("[DIAGNOSIS] Trigger and batch are balanced.")

\* a batch that took exactly the interval was diagnosed, and found balanced
C1_Witness ==
    /\ Diagnosed /\ IntegerTrigger(call.progress)
    /\ call.interval > 0
    /\ TriggerOf(call.progress).n = 1000 * call.interval
    /\ Printed("[DIAGNOSIS] Trigger and batch are balanced.")

\* the non-empty snapshot lacks 'durationMs' or 'triggerExecution', or holds a
\* value that does not convert to an integer
Malformed(p) ==
    /\ NonEmptySnapshot(p)
    /\ \/ ~HasTrigger(p)
       \/ HasTrigger(p) /\ ~Convertible(TriggerOf(p))

\* C5: when a non-empty snapshot lacks 'durationMs' or 'triggerExecution', or holds
\* a value that does not convert to an integer, diagnose_performance prints the
\* "Could not extract performance info" message and nothing else (no diagnosis),
\* and returns normally: no exception reaches the caller.
C5_MalformedSnapshotIsReportedNotRaised ==
    (Diagnosed /\ Malformed(call.progress)) =>
        /\ outcome = "returned"
        /\ Len(out) = 1
        /\ out[1].text = "Could not extract performance info:"
        /\ DiagnosesPrinted = {}

\* a snapshot whose triggerExecution is not a number was diagnosed (int() threw
\* ValueError) and the call returned
C5_Witness ==
    /\ Diagnosed /\ HasTrigger(call.progress)
    /\ TriggerOf(call.progress) = PyStr(<<"x">>)
    /\ Printed("Could not extract performance info:")
    /\ outcome = "returned"

NotStartedOnly == << Line("No progress yet. Query may not have started.") >>

C6_NotStarted ==
    (Diagnosed /\ call.progress = PyNone) =>
        /\ out = NotStartedOnly
        /\ reads = <<"lastProgress">>
        /\ outcome = "returned"

C6_Repeat ==
    (diagnose_performance /\ lastProgress = PyNone) =>
        /\ out' = NotStartedOnly
        /\ outcome' = "returned"
        /\ (Diagnosed /\ call.progress = PyNone => out' = out)
        /\ UNCHANGED <<lastProgress, recentProgress, active, table, threads, chart>>

\* C6: with no progress snapshot (lastProgress is None) diagnose_performance
\* prints the not-started message and returns: it reads no field of the snapshot,
\* prints neither interval, duration nor diagnosis, does not raise; called again in
\* that state it prints the same and changes no state of the engine or the table.
C6_NoProgressIsANoOp == []C6_NotStarted /\ [][C6_Repeat]_vars

\* the function was called before any batch had completed
C6_Witness ==
    /\ Diagnosed /\ call.progress = PyNone /\ lastProgress = PyNone
    /\ call.interval > 0
    /\ out = NotStartedOnly

(***************************************************************************)
(* Properties of check_partitions_and_cores_static.                        *)
(***************************************************************************)
ClassificationTexts ==
    { "Under-partitioned: not all cores will be used.",
      "Over-partitioned: could lead to overhead and small files.",
      "Partitioning is well balanced with available cores." }

ClassificationsPrinted == {i \in 1..Len(out) : out[i].text \in ClassificationTexts}

Audited == call.op = "check_partitions_and_cores_static"

\* C4: check_partitions_and_cores_static emits at most one classification, fixed by
\* (isStreaming, partitions, cores).  For a streaming reference it prints the warning
\* and returns: it reads neither the partition count nor the core count and prints
\* no classification.  For a static reference it prints "under-partitioned" iff
\* partitions < cores, "over-partitioned" iff partitions >= cores and
\* partitions > cores*4, "balanced" otherwise: partitions = cores and
\* partitions = cores*4 are balanced, 2 vs 8 is under, 40 vs 8 over, 16 vs 8 balanced.
C4_PartitionClassification ==
    Audited =>
        LET P == call.df.partitions
            K == call.cores
            under == P < K
            over  == P >= K /\ P > K * 4
        IN  IF call.df.isStreaming
            THEN /\ out = << Line("Cannot check partitions on a streaming DataFrame.") >>
                 /\ reads = <<"df.isStreaming">>
                 /\ ClassificationsPrinted = {}
            ELSE /\ Cardinality(ClassificationsPrinted) = 1
                 /\ Printed("Under-partitioned: not all cores will be used.") <=> under
                 /\ Printed("Over-partitioned: could lead to overhead and small files.")
                        <=> over
                 /\ Printed("Partitioning is well balanced with available cores.")
                        <=> (~under /\ ~over)
                 /\ (P = K \/ P = K * 4 \/ (P = 16 /\ K = 8))
                        => Printed("Partitioning is well balanced with available cores.")
                 /\ (P = 2 /\ K = 8)
                        => Printed("Under-partitioned: not all cores will be used.")
                 /\ (P = 40 /\ K = 8)
                        => Printed("Over-partitioned: could lead to overhead and small files.")

\* a static reference with exactly four partitions per core was audited, and found
\* balanced
C4_Witness ==
    /\ Audited /\ ~call.df.isStreaming
    /\ call.cores = 8 /\ call.df.partitions = 32
    /\ Printed("Partitioning is well balanced with available cores.")

(***************************************************************************)
(* Properties of plot_task_durations.                                      *)
(***************************************************************************)
Plotted == call.op = "plot_task_durations" /\ outcome \in {"returned", "raised"}

ValidDuration(p) == HasTrigger(p) /\ Convertible(TriggerOf(p))
HasTimestamp(p) == p.kind = "dict" /\ "timestamp" \in DOMAIN p.items
ValidPair(p) == ValidDuration(p) /\ HasTimestamp(p)

DurationMsOf(p) ==
    IF TriggerOf(p).kind = "int" THEN TriggerOf(p).n ELSE decimal(TriggerOf(p).chars)
DurationsOf(ps) == [i \in 1..Len(ps) |-> DurationMsOf(ps[i])]
TimestampsOf(ps) == [i \in 1..Len(ps) |-> ps[i].items["timestamp"]]

\* C3: given a history in which some snapshots have a missing or malformed
\* durationMs.triggerExecution, plot_task_durations plots exactly the snapshots
\* whose duration extracts (5 snapshots with 2 malformed give 3 points), in their
\* order in the history, and does not raise.
C3_PlotsExactlyTheValidDurations ==
    (Plotted /\ \E i \in 1..Len(call.history) : ~ValidDuration(call.history[i])) =>
        LET valid == SelectSeq(call.history, ValidDuration) IN
        /\ outcome = "returned"
        /\ chart.rendered <=> valid # <<>>
        /\ chart.rendered =>
              /\ chart.y = DurationsOf(valid)
              /\ Len(chart.x) = Len(valid)

\* what does hold of C3: when every snapshot of the history carries a timestamp,
\* the chart is of exactly the snapshots whose duration extracts, in order
PlotOfTimestampedHistory ==
    (Plotted /\ \A i \in 1..Len(call.history) : HasTimestamp(call.history[i])) =>
        LET valid == SelectSeq(call.history, ValidDuration) IN
        /\ outcome = "returned"
        /\ chart.rendered <=> valid # <<>>
        /\ chart.rendered =>
              /\ chart.y = DurationsOf(valid)
              /\ chart.x = TimestampsOf(valid)

\* five snapshots, two of them with a malformed duration, gave three points
PlotOfFiveWithTwoMalformed ==
    /\ Plotted /\ Len(call.history) = 5
    /\ Len(SelectSeq(call.history, ValidDuration)) = 3
    /\ chart.rendered /\ Len(chart.y) = 3

\* C9, for a history that is not empty: plot_task_durations renders a chart if the
\* history holds at least one valid (timestamp, duration) pair, and otherwise (every
\* snapshot malformed) prints the "no valid durations" message and renders nothing.
C9_ChartIffAValidPair ==
    (Plotted /\ call.history # <<>>) =>
        IF \E i \in 1..Len(call.history) : ValidPair(call.history[i])
        THEN chart.rendered /\ outcome = "returned"
        ELSE /\ ~chart.rendered
             /\ out = << Line("No valid durations to plot.") >>
             /\ outcome = "returned"

\* C10: after any prefix of the history, durations and timestamps have the same
\* length and their i-th entries come from the same snapshot: a snapshot for which
\* either extraction throws (one with a valid duration and no 'timestamp' included)
\* contributes to neither list.
C10_ListsStayPaired ==
    pc = "plot_loop" =>
        LET pairs == SelectSeq(SubSeq(loc.progress_history, 1, loc.i - 1), ValidPair) IN
        /\ Len(loc.durations) = Len(loc.timestamps)
        /\ loc.durations = DurationsOf(pairs)
        /\ loc.timestamps = TimestampsOf(pairs)

(***************************************************************************)
(* Properties of stop_all_queries.                                         *)
(***************************************************************************)
StopCalled == call.op = "stop_all_queries"

StopsOf(q) == {k \in 1..Len(events) : events[k] = Event("stop", q)}

\* C8: stop_all_queries issues a stop exactly once on every query of the engine's
\* active set, and on no other query; the "Stopping query" line naming a query is
\* printed before its stop is issued; the next query is announced only after the
\* previous stop has returned; with no active query no stop is issued.
C8_EveryActiveQueryStoppedOnce ==
    StopCalled =>
        /\ \A k \in 1..Len(events) :
              /\ events[k].q \in Range(call.active)
              /\ events[k].ev = "stop" =>
                    /\ k > 1
                    /\ events[k - 1] = Event("print", events[k].q)
                    /\ \E j \in 1..Len(out) :
                          out[j] = LineOf("Stopping query", <<events[k].q>>)
              /\ (events[k].ev = "print" /\ k > 1) =>
                    /\ events[k - 1].ev = "returned"
                    /\ events[k - 1].q # events[k].q
        /\ \A q \in Queries : Cardinality(StopsOf(q)) <= 1
        /\ outcome = "returned" =>
              \A q \in Range(call.active) : Cardinality(StopsOf(q)) = 1
        /\ call.active = <<>> => events = <<>>

\* stop_all_queries has returned after stopping two queries or more
C8_Witness ==
    /\ StopCalled /\ outcome = "returned"
    /\ Len(call.active) >= 2
    /\ \A q \in Range(call.active) : StopsOf(q) # {}

(***************************************************************************)
(* Properties of simulate_delta_commits and start_background_commits.      *)
(***************************************************************************)
CommitsOf(t) == SelectSeq(table, LAMBDA c : c.writer = t)

\* C2: a run of simulate_delta_commits makes exactly num_batches append commits, in
\* increasing batch order, each of exactly rows_per_batch rows, and returns only
\* after all of them: at every point the batches it has committed are a prefix
\* 0..k-1 of the batch sequence.
C2_CommitsAreAPrefixInOrder ==
    \A t \in 1..Len(threads) :
        LET cs == CommitsOf(t) IN
        /\ Len(cs) <= threads[t].num_batches
        /\ \A k \in 1..Len(cs) :
              /\ cs[k].batch = k - 1
              /\ cs[k].rows = threads[t].rows_per_batch
              /\ cs[k].start = (k - 1) * threads[t].rows_per_batch
        /\ threads[t].pc = "done" => Len(cs) = threads[t].num_batches

\* a run of three batches has returned, with its three commits in the table
C2_Witness ==
    \E t \in 1..Len(threads) :
        /\ threads[t].pc = "done"
        /\ threads[t].num_batches = 3
        /\ threads[t].rows_per_batch > 0
        /\ Len(CommitsOf(t)) = 3

\* C7: start_background_commits starts simulate_delta_commits on a daemon thread and
\* returns the handle without waiting for it: whatever the thread has done so far
\* (0..num_batches commits outstanding) the caller can return, and the foreground
\* can run further operations while the generator sleeps.
C7_StartReturnsWithoutWaiting ==
    /\ pc = "thread_started" => ENABLED start_background_commits_returns
    /\ pc = "idle" => ENABLED list_active_queries
    /\ \A t \in 1..Len(threads) : threads[t].daemon
    /\ (call.op = "start_background_commits" /\ outcome = "returned") =>
          /\ call.returned = call.thread
          /\ call.thread \in 1..Len(threads)

\* the foreground has run another function while the generator sleeps after its
\* first commit, with two more outstanding
C7_Witness ==
    /\ call.op = "list_active_queries"
    /\ pc = "idle"
    /\ \E t \in 1..Len(threads) :
          /\ threads[t].pc = "sleep"
          /\ threads[t].i = 0
          /\ threads[t].num_batches = 3
====
